---- MODULE Spec2Model ----
(***************************************************************************)
(* Model of ArgsParser (src/utils/args.ts): the static parseArgs scan, the *)
(* constructor that stores its result, and the query methods.              *)
(*                                                                         *)
(* A string is a sequence of one-character strings, so that startsWith,    *)
(* slice, split and += are computed character by character.  A recorded    *)
(* value (string | boolean) is a record [kind, str]; `undefined` is the    *)
(* record of kind "undefined".  A name that every object inherits from     *)
(* Object.prototype is written as a single piece ("toString"); the method  *)
(* found under it is the record of kind "function".                        *)
(*                                                                         *)
(* deepFreeze and deepSeal (utils/objectManip.ts, src/unnamed/part_004)    *)
(* are modelled over a heap of objects further down, stripAnsi             *)
(* (utils/ansi.ts, src/unnamed/part_002 lines 625-633) after them.         *)
(***************************************************************************)
EXTENDS Integers, Sequences, FiniteSets, TLC

VARIABLES cmdArgs, options, pc, i, parsedArgs, looseArgs, restCommand,
          collectingRest, this, calls,
          heap, call, stack, returned,
          text, strippedText, ansiPc

\* The state of ArgsParser and the state of deepFreeze / deepSeal.
argsVars == <<cmdArgs, options, pc, i, parsedArgs, looseArgs, restCommand,
              collectingRest, this, calls>>
objVars == <<heap, call, stack, returned>>
ansiVars == <<text, strippedText, ansiPc>>
vars == <<argsVars, objVars, ansiVars>>

(***************************************************************************)
(* Bounds of the model.                                                    *)
(***************************************************************************)
MaxTokens == 3
MaxCalls == 2

(***************************************************************************)
(* JavaScript values.                                                      *)
(***************************************************************************)
EmptyString == <<>>
StringValue(s) == [kind |-> "string", str |-> s]
BooleanTrue == [kind |-> "boolean", str |-> <<>>]
Undefined == [kind |-> "undefined", str |-> <<>>]
EmptyObject == [k \in {} |-> <<>>]

\* The property names a plain object ({}) inherits from Object.prototype
\* (one representative), and the method found under such a name; str is
\* the method's source text, which is what it becomes as a property key.
Inherited == { <<"toString">> }
FunctionValue(name) ==
  [kind |-> "function",
   str |-> <<"function ">> \o name \o <<"() { [native code] }">>]

\* value.toString() of a recorded value: the string itself, "true", or the
\* source text of a function.
toString(v) == IF v.kind = "boolean" THEN <<"t", "r", "u", "e">> ELSE v.str

\* JavaScript truthiness of a recorded value or of undefined.
Truthy(v) ==
  \/ v.kind = "boolean"
  \/ v.kind = "function"
  \/ (v.kind = "string" /\ v.str # EmptyString)

\* String.prototype.startsWith
startsWith(s, p) == Len(s) >= Len(p) /\ SubSeq(s, 1, Len(p)) = p

\* String.prototype.slice(n)
slice(s, n) == SubSeq(s, n + 1, Len(s))

\* String.prototype.split("="): every "=" separates, "" yields [""].
RECURSIVE split(_)
split(s) ==
  IF \E k \in 1..Len(s) : s[k] = "="
    THEN LET k == CHOOSE k \in 1..Len(s) :
                    s[k] = "=" /\ \A j \in 1..(k - 1) : s[j] # "="
         IN <<SubSeq(s, 1, k - 1)>> \o split(SubSeq(s, k + 1, Len(s)))
    ELSE <<s>>

Range(f) == {f[x] : x \in DOMAIN f}

\* A value held by a property of an object, or passed to deepFreeze /
\* deepSeal: a primitive (typeof value !== "object") or a reference to the
\* object heap[ref].
Number == [isObject |-> FALSE, ref |-> 0]
Ref(id) == [isObject |-> TRUE, ref |-> id]

\* While no deepFreeze / deepSeal call is in progress.
NoCall == [fn |-> "none", obj |-> Number, createCopy |-> FALSE]

(***************************************************************************)
(* Inputs: the tokens, alias tables and boolean lists the caller passes.   *)
(***************************************************************************)
Tokens ==
  { <<>>,
    <<"-", "-">>,
    <<"-">>,
    <<"-", "a">>,
    <<"-", "-", "b">>,
    <<"-", "-", "-", "a">>,
    <<"-", "a", "=", "x", "=", "y">>,
    <<"x">>,
    <<"x", "=", "y">> }

TokenSeqs == UNION {[1..n -> Tokens] : n \in 0..MaxTokens}

NoAliases == [hasAliases |-> FALSE, aliases |-> EmptyObject]
WithAliases(m) == [hasAliases |-> TRUE, aliases |-> m]

AliasTables ==
  { NoAliases,
    WithAliases((<<"a">> :> <<"b">>)),
    WithAliases((<<"a">> :> <<"b">>) @@ (<<"b">> :> <<"c">>)),
    WithAliases((<<"a">> :> <<>>)) }

NoBoolean == [hasBoolean |-> FALSE, boolean |-> <<>>]
WithBoolean(l) == [hasBoolean |-> TRUE, boolean |-> l]

BooleanLists ==
  { NoBoolean,
    WithBoolean(<< <<"a">> >>),
    WithBoolean(<< <<"b">> >>) }

OptionsSet ==
  { [hasAliases |-> a.hasAliases, aliases |-> a.aliases,
     hasBoolean |-> b.hasBoolean, boolean |-> b.boolean] :
      a \in AliasTables, b \in BooleanLists }

\* The names a caller queries.
Names == { <<>>, <<"a">>, <<"b">>, <<"c">>, <<"-", "a">> }

(***************************************************************************)
(* parseArgs, lines 103-162.                                               *)
(***************************************************************************)

\* options.aliases![argName] (line 111) / options.aliases?.[key] (line 128)
\* The table is a plain object: a name it does not own but inherits yields
\* the inherited method.
aliasLookup(opts, name) ==
  IF opts.hasAliases /\ name \in DOMAIN opts.aliases
    THEN StringValue(opts.aliases[name])
    ELSE IF opts.hasAliases /\ name \in Inherited
      THEN FunctionValue(name)
      ELSE Undefined

\* Variant: the boolean list is used as given, without alias normalisation.
normalizedBoolean_asGiven(opts) == opts.boolean

\* lines 110-112: options.boolean.map(argName => aliases[argName] || argName)
normalizedBoolean(opts) ==
  [n \in 1..Len(opts.boolean) |->
     IF Truthy(aliasLookup(opts, opts.boolean[n]))
       THEN aliasLookup(opts, opts.boolean[n]).str
       ELSE opts.boolean[n]]

\* Variant: one leading "-" is removed, whatever follows it.
parts_oneDash(arg) == split(slice(arg, 1))

\* line 124: arg.slice(arg.startsWith("--") ? 2 : 1).split("=")
parts(arg) == split(slice(arg, IF startsWith(arg, <<"-", "-">>) THEN 2 ELSE 1))

\* Variant: the written key is used without alias resolution.
resolveKey_noAlias(opts, key) == key

\* lines 125-128: key = aliases?.[key] ? aliases?.[key] : key
resolveKey(opts, key) ==
  IF Truthy(aliasLookup(opts, key)) THEN aliasLookup(opts, key).str ELSE key

\* lines 130-133: options.boolean?.includes(key)
isBoolean(opts, key) == opts.hasBoolean /\ key \in Range(opts.boolean)

\* Variant: any following token is taken as the value.
nextIsValue_noDashCheck(args, idx) == idx + 1 < Len(args)

\* line 142: i + 1 < cmdArgs.length && !cmdArgs[i + 1].startsWith("-")
\* (i is 0-based as in the code; cmdArgs[i] of the code is args[i + 1] here)
nextIsValue(args, idx) ==
  idx + 1 < Len(args) /\ ~startsWith(args[idx + 2], <<"-">>)

\* Variant: an inline value is looked at before the boolean set.
flagValue_inlineFirst(opts, args, idx) ==
  LET p == parts(args[idx + 1])
      key == resolveKey(opts, p[1])
  IN IF Len(p) > 1
       THEN [value |-> StringValue(p[2]), skip |-> FALSE]
       ELSE IF isBoolean(opts, key)
         THEN [value |-> BooleanTrue, skip |-> FALSE]
         ELSE IF nextIsValue(args, idx)
           THEN [value |-> StringValue(args[idx + 2]), skip |-> TRUE]
           ELSE [value |-> StringValue(EmptyString), skip |-> FALSE]

\* lines 135-145: the value recorded for the flag token at idx and whether
\* the following token is consumed (i++).
flagValue(opts, args, idx) ==
  LET p == parts(args[idx + 1])
      key == resolveKey(opts, p[1])
  IN IF isBoolean(opts, key)
       THEN [value |-> BooleanTrue, skip |-> FALSE]
       ELSE IF Len(p) > 1
         THEN [value |-> StringValue(p[2]), skip |-> FALSE]
         ELSE IF nextIsValue(args, idx)
           THEN [value |-> StringValue(args[idx + 2]), skip |-> TRUE]
           ELSE [value |-> StringValue(EmptyString), skip |-> FALSE]

\* line 148: key in parsedArgs, which is true of own and inherited names
in(key, obj) == key \in DOMAIN obj \/ key \in Inherited

\* Variant: a new value replaces the values recorded so far.
record_overwrite(pa, key, value) ==
  [k \in DOMAIN pa \cup {key} |-> IF k = key THEN <<value>> ELSE pa[k]]

\* lines 148-155: append value to parsedArgs[key], creating the key if new.
\* An existing value that is not an array (line 152) is an inherited method.
record(pa, key, value) ==
  [k \in DOMAIN pa \cup {key} |->
     IF k = key
       THEN (IF in(key, pa)
               THEN (IF key \in DOMAIN pa
                       THEN Append(pa[key], value)
                       ELSE <<FunctionValue(key), value>>)
               ELSE <<value>>)
       ELSE pa[k]]

\* Variant: a space is put before every appended token.
restAppend_alwaysSpace(rest, arg) == rest \o <<" ">> \o arg

\* line 120: restCommand += (restCommand ? " " : "") + arg
restAppend(rest, arg) ==
  rest \o (IF rest # EmptyString THEN <<" ">> ELSE <<>>) \o arg

\* Variant: every token that starts with "--" is taken as the delimiter.
isDelimiter_prefix(arg) == startsWith(arg, <<"-", "-">>)

\* line 121: arg === "--"
isDelimiter(arg) == arg = <<"-", "-">>

\* Variant: a loose token is put in front of the ones already collected.
push_front(loose, arg) == <<arg>> \o loose

\* line 157: looseArgs.push(arg)
push(loose, arg) == Append(loose, arg)

Init ==
  /\ cmdArgs \in TokenSeqs
  /\ options \in OptionsSet
  /\ pc = "new"
  /\ i = 0
  /\ parsedArgs = EmptyObject
  /\ looseArgs = <<>>
  /\ restCommand = EmptyString
  /\ collectingRest = FALSE
  /\ this = [aliases |-> EmptyObject, parsedArgs |-> EmptyObject,
             looseArgs |-> <<>>, restCommand |-> EmptyString]
  /\ calls = 1
  /\ heap = <<>>
  /\ call = NoCall
  /\ stack = <<>>
  /\ returned = Number
  /\ text = EmptyString
  /\ strippedText = EmptyString
  /\ ansiPc = "none"

\* constructor, lines 179-183: keep options.aliases, then call parseArgs
\* (lines 103-106: fresh locals).
Constructor ==
  /\ pc = "new"
  /\ this' = [aliases |-> IF options.hasAliases THEN options.aliases
                          ELSE EmptyObject,
              parsedArgs |-> EmptyObject, looseArgs |-> <<>>,
              restCommand |-> EmptyString]
  /\ parsedArgs' = EmptyObject
  /\ looseArgs' = <<>>
  /\ restCommand' = EmptyString
  /\ collectingRest' = FALSE
  /\ i' = 0
  /\ pc' = "normalize"
  /\ UNCHANGED <<cmdArgs, options, calls>>
  /\ UNCHANGED <<objVars, ansiVars>>

\* lines 109-114, condition true: options.boolean = normalizedBoolean
NormalizeBoolean ==
  /\ pc = "normalize"
  /\ options.hasBoolean /\ options.hasAliases
  /\ options' = [options EXCEPT !.boolean = normalizedBoolean(options)]
  /\ pc' = "loop"
  /\ UNCHANGED <<cmdArgs, i, parsedArgs, looseArgs, restCommand,
                 collectingRest, this, calls>>
  /\ UNCHANGED <<objVars, ansiVars>>

\* lines 109-114, condition false
SkipNormalize ==
  /\ pc = "normalize"
  /\ ~(options.hasBoolean /\ options.hasAliases)
  /\ pc' = "loop"
  /\ UNCHANGED <<cmdArgs, options, i, parsedArgs, looseArgs, restCommand,
                 collectingRest, this, calls>>
  /\ UNCHANGED <<objVars, ansiVars>>

\* lines 119-120
CollectRest ==
  /\ pc = "loop" /\ i < Len(cmdArgs)
  /\ collectingRest
  /\ restCommand' = restAppend(restCommand, cmdArgs[i + 1])
  /\ i' = i + 1
  /\ UNCHANGED <<cmdArgs, options, pc, parsedArgs, looseArgs,
                 collectingRest, this, calls>>
  /\ UNCHANGED <<objVars, ansiVars>>

\* lines 121-122
Delimiter ==
  /\ pc = "loop" /\ i < Len(cmdArgs)
  /\ ~collectingRest
  /\ isDelimiter(cmdArgs[i + 1])
  /\ collectingRest' = TRUE
  /\ i' = i + 1
  /\ UNCHANGED <<cmdArgs, options, pc, parsedArgs, looseArgs, restCommand,
                 this, calls>>
  /\ UNCHANGED <<objVars, ansiVars>>

\* lines 123-155
FlagToken ==
  /\ pc = "loop" /\ i < Len(cmdArgs)
  /\ ~collectingRest
  /\ ~isDelimiter(cmdArgs[i + 1])
  /\ startsWith(cmdArgs[i + 1], <<"-">>)
  /\ LET key == resolveKey(options, parts(cmdArgs[i + 1])[1])
         fv == flagValue(options, cmdArgs, i)
     IN /\ parsedArgs' = record(parsedArgs, key, fv.value)
        /\ i' = IF fv.skip THEN i + 2 ELSE i + 1
  /\ UNCHANGED <<cmdArgs, options, pc, looseArgs, restCommand,
                 collectingRest, this, calls>>
  /\ UNCHANGED <<objVars, ansiVars>>

\* lines 156-158
LooseToken ==
  /\ pc = "loop" /\ i < Len(cmdArgs)
  /\ ~collectingRest
  /\ ~startsWith(cmdArgs[i + 1], <<"-">>)
  /\ looseArgs' = push(looseArgs, cmdArgs[i + 1])
  /\ i' = i + 1
  /\ UNCHANGED <<cmdArgs, options, pc, parsedArgs, restCommand,
                 collectingRest, this, calls>>
  /\ UNCHANGED <<objVars, ansiVars>>

\* line 161 and constructor lines 183-186: the result is stored.
Return ==
  /\ pc = "loop" /\ i >= Len(cmdArgs)
  /\ this' = [this EXCEPT !.parsedArgs = parsedArgs,
                          !.looseArgs = looseArgs,
                          !.restCommand = restCommand]
  /\ pc' = "constructed"
  /\ UNCHANGED <<cmdArgs, options, i, parsedArgs, looseArgs, restCommand,
                 collectingRest, calls>>
  /\ UNCHANGED <<objVars, ansiVars>>

\* The caller constructs another parser from the same array and the same
\* options object.
Reuse ==
  /\ pc = "constructed"
  /\ calls < MaxCalls
  /\ calls' = calls + 1
  /\ pc' = "new"
  /\ UNCHANGED <<cmdArgs, options, i, parsedArgs, looseArgs, restCommand,
                 collectingRest, this>>
  /\ UNCHANGED <<objVars, ansiVars>>

Next ==
  \/ Constructor
  \/ NormalizeBoolean
  \/ SkipNormalize
  \/ CollectRest
  \/ Delimiter
  \/ FlagToken
  \/ LooseToken
  \/ Return
  \/ Reuse

(***************************************************************************)
(* parseArgs as a function of its arguments: the loop of lines 116-159     *)
(* from token idx on, over the locals st, and the whole call.              *)
(***************************************************************************)
RECURSIVE parseLoop(_, _, _, _)
parseLoop(opts, args, idx, st) ==
  IF idx >= Len(args) THEN st
  ELSE LET arg == args[idx + 1]
       IN IF st.collectingRest
            THEN parseLoop(opts, args, idx + 1,
                   [st EXCEPT !.restCommand = restAppend(@, arg)])
            ELSE IF isDelimiter(arg)
              THEN parseLoop(opts, args, idx + 1,
                     [st EXCEPT !.collectingRest = TRUE])
              ELSE IF startsWith(arg, <<"-">>)
                THEN LET key == resolveKey(opts, parts(arg)[1])
                         fv == flagValue(opts, args, idx)
                     IN parseLoop(opts, args,
                          IF fv.skip THEN idx + 2 ELSE idx + 1,
                          [st EXCEPT !.parsedArgs = record(@, key, fv.value)])
                ELSE parseLoop(opts, args, idx + 1,
                       [st EXCEPT !.looseArgs = push(@, arg)])

\* lines 95-162: { args, loose, rest } for the given tokens and options
parseArgs(args, opts) ==
  LET normalized == IF opts.hasBoolean /\ opts.hasAliases
                      THEN [opts EXCEPT !.boolean = normalizedBoolean(opts)]
                      ELSE opts
      st == parseLoop(normalized, args, 0,
              [parsedArgs |-> EmptyObject, looseArgs |-> <<>>,
               restCommand |-> EmptyString, collectingRest |-> FALSE])
  IN [args |-> st.parsedArgs, loose |-> st.looseArgs, rest |-> st.restCommand]

(***************************************************************************)
(* Query methods, lines 195-255.                                           *)
(***************************************************************************)

\* Variant: the queried name is looked up without alias resolution.
canonicalArgName_raw(t, argName) == argName

\* lines 196, 214, 239, 252: this.aliases[argName] || argName
\* this.aliases is always an object (line 180), so an inherited name finds
\* the inherited method, which then serves as the property key.
canonicalArgName(t, argName) ==
  IF argName \in DOMAIN t.aliases
    THEN (IF t.aliases[argName] # EmptyString THEN t.aliases[argName]
          ELSE argName)
    ELSE IF argName \in Inherited
      THEN FunctionValue(argName).str
      ELSE argName

\* this.parsedArgs[c] (lines 197, 215, 240, 253): the recorded array, the
\* inherited method, or undefined.
Property(t, c) ==
  IF c \in DOMAIN t.parsedArgs
    THEN [isArray |-> TRUE, items |-> t.parsedArgs[c]]
    ELSE IF c \in Inherited
      THEN [isArray |-> FALSE, items |-> <<FunctionValue(c)>>]
      ELSE [isArray |-> FALSE, items |-> <<>>]

\* String.prototype.toLowerCase on the letters the inputs use
toLowerCase(s) ==
  [n \in 1..Len(s) |->
     CASE s[n] = "N" -> "n"
       [] s[n] = "O" -> "o"
       [] s[n] = "Y" -> "y"
       [] s[n] = "F" -> "f"
       [] s[n] = "A" -> "a"
       [] s[n] = "L" -> "l"
       [] s[n] = "S" -> "s"
       [] s[n] = "E" -> "e"
       [] OTHER -> s[n]]

\* line 198: values.map(...) when values is not an array (an inherited
\* method is truthy, so `|| []` does not replace it) raises
\* "TypeError: values.map is not a function".
getArrayThrows(t, argName) ==
  LET P == Property(t, canonicalArgName(t, argName))
  IN ~P.isArray /\ P.items # <<>>

\* What a call that raises yields in place of a result.
TypeError == << <<"TypeError">> >>

\* Variant: a boolean true is rendered by its string form.
getArray_trueAsWord(t, argName) ==
  LET values == Property(t, canonicalArgName(t, argName)).items
  IN IF getArrayThrows(t, argName) THEN TypeError
     ELSE [n \in 1..Len(values) |-> toString(values[n])]

\* lines 195-205
getArray(t, argName) ==
  LET values == Property(t, canonicalArgName(t, argName)).items
  IN IF getArrayThrows(t, argName) THEN TypeError
     ELSE [n \in 1..Len(values) |->
             IF values[n].kind = "boolean"
               THEN EmptyString
               ELSE IF Truthy(values[n]) THEN toString(values[n])
                    ELSE EmptyString]

\* Variant: the first value is compared without lower-casing.
getBoolean_caseSensitive(t, argName) ==
  LET value == Property(t, canonicalArgName(t, argName)).items
  IN IF value # <<>>
       THEN ~(toString(value[1]) \in
                { <<"n", "o">>, <<"n">>, <<"f", "a", "l", "s", "e">>, <<"0">> })
       ELSE FALSE

\* lines 213-230: firstValue is value[0] of an array and the value itself
\* otherwise; undefined gives false.
getBoolean(t, argName) ==
  LET value == Property(t, canonicalArgName(t, argName)).items
  IN IF value # <<>>
       THEN LET firstValueClean == toLowerCase(toString(value[1]))
            IN ~(firstValueClean \in { <<"n", "o">>, <<"n">>,
                                       <<"f", "a", "l", "s", "e">>, <<"0">> })
       ELSE FALSE

\* lines 238-243
get(t, argName) ==
  LET value == Property(t, canonicalArgName(t, argName)).items
      firstValue == IF value # <<>> THEN value[1] ELSE Undefined
  IN IF Truthy(firstValue) THEN StringValue(toString(firstValue))
     ELSE Undefined

\* lines 251-255: Array.isArray(value) ? value.length : (value ? 1 : 0)
count(t, argName) ==
  LET P == Property(t, canonicalArgName(t, argName))
  IN IF P.isArray THEN Len(P.items)
     ELSE IF P.items # <<>> THEN 1 ELSE 0

\* lines 277-287
getRest(t) == t.restCommand
hasRest(t) == t.restCommand # EmptyString

Spec == Init /\ [][Next]_vars

(***************************************************************************)
(* The parser on tokens that spell boolean words (args.test.ts:173-189).   *)
(***************************************************************************)
BooleanTokens ==
  { <<"-", "-">>,
    <<"-", "a">>,
    <<"-", "-", "b">>,
    <<"N", "o">>,
    <<"n">>,
    <<"F", "A", "L", "S", "E">>,
    <<"0">>,
    <<"Y", "e", "s">> }

BooleanTokenSeqs == UNION {[1..n -> BooleanTokens] : n \in 0..MaxTokens}

InitBoolean ==
  /\ cmdArgs \in BooleanTokenSeqs
  /\ options \in OptionsSet
  /\ pc = "new"
  /\ i = 0
  /\ parsedArgs = EmptyObject
  /\ looseArgs = <<>>
  /\ restCommand = EmptyString
  /\ collectingRest = FALSE
  /\ this = [aliases |-> EmptyObject, parsedArgs |-> EmptyObject,
             looseArgs |-> <<>>, restCommand |-> EmptyString]
  /\ calls = 1
  /\ heap = <<>>
  /\ call = NoCall
  /\ stack = <<>>
  /\ returned = Number
  /\ text = EmptyString
  /\ strippedText = EmptyString
  /\ ansiPc = "none"

SpecBoolean == InitBoolean /\ [][Next]_vars

(***************************************************************************)
(* The parser on flags and alias targets that name a property every        *)
(* object inherits (parsedArgs, options.aliases and this.aliases are plain *)
(* objects, lines 103, 128, 180).                                          *)
(***************************************************************************)
InheritedTokens ==
  { <<"-", "-">>,
    <<"-", "a">>,
    <<"-", "-", "toString">>,
    <<"x">> }

InheritedTokenSeqs == UNION {[1..n -> InheritedTokens] : n \in 0..MaxTokens}

InheritedOptionsSet ==
  { [hasAliases |-> a.hasAliases, aliases |-> a.aliases,
     hasBoolean |-> b.hasBoolean, boolean |-> b.boolean] :
      a \in { NoAliases, WithAliases((<<"a">> :> <<"toString">>)) },
      b \in { NoBoolean, WithBoolean(<< <<"toString">> >>) } }

InitInherited ==
  /\ cmdArgs \in InheritedTokenSeqs
  /\ options \in InheritedOptionsSet
  /\ pc = "new"
  /\ i = 0
  /\ parsedArgs = EmptyObject
  /\ looseArgs = <<>>
  /\ restCommand = EmptyString
  /\ collectingRest = FALSE
  /\ this = [aliases |-> EmptyObject, parsedArgs |-> EmptyObject,
             looseArgs |-> <<>>, restCommand |-> EmptyString]
  /\ calls = 1
  /\ heap = <<>>
  /\ call = NoCall
  /\ stack = <<>>
  /\ returned = Number
  /\ text = EmptyString
  /\ strippedText = EmptyString
  /\ ansiPc = "none"

SpecInherited == InitInherited /\ [][Next]_vars

(***************************************************************************)
(* deepFreeze and deepSeal, src/unnamed/part_004 lines 24-44 and 68-88.    *)
(*                                                                         *)
(* heap is the sequence of the objects that exist; an object has own       *)
(* enumerable properties props (a function from some of PropNames to       *)
(* values) and an integrity level status: "plain", "sealed" or "frozen".   *)
(* stack is the call stack, innermost call last; call is the outermost     *)
(* call and returned its result once stack is empty.                       *)
(***************************************************************************)
\* The number of nested calls the engine allows before it raises
\* "RangeError: Maximum call stack size exceeded".
MaxDepth == 5

\* for (const prop in target): own properties in creation order
PropNames == <<"p", "q">>

Object(props, status) == [props |-> props, status |-> status]
NoProps == [n \in {} |-> Number]

\* Object.isFrozen: frozen, or sealed with no property left to write
isFrozen(o) ==
  o.status = "frozen" \/ (o.status = "sealed" /\ DOMAIN o.props = {})

\* Object.isSealed
isSealed(o) == o.status \in {"sealed", "frozen"}

\* Object.freeze(heap[id]) (line 30)
freeze(h, id) == [h EXCEPT ![id].status = "frozen"]

\* Object.seal(heap[id]) (line 74)
seal(h, id) ==
  [h EXCEPT ![id].status = IF @ = "plain" THEN "sealed" ELSE @]

\* The objects reachable from the objects in S through properties.
RECURSIVE ReachFrom(_, _)
ReachFrom(h, S) ==
  LET T == S \cup {y \in 1..Len(h) :
                     \E x \in S : \E n \in DOMAIN h[x].props :
                       h[x].props[n] = Ref(y)}
  IN IF T = S THEN S ELSE ReachFrom(h, T)

Reach(h, id) == ReachFrom(h, {id})

\* structuredClone(heap[id]) (lines 29, 73): every object reachable from id
\* is copied once into a new plain object, references between the copies
\* follow the references between the originals.
cloneOf(h, id, x) == Len(h) + Cardinality({y \in Reach(h, id) : y <= x})

\* Variant: only the object itself is copied, its property values are
\* shared with the original.
structuredClone_shallow(h, id) == Append(h, Object(h[id].props, "plain"))

structuredClone(h, id) ==
  LET R == Reach(h, id)
      original(c) == CHOOSE x \in R : cloneOf(h, id, x) = c
  IN h \o [k \in 1..Cardinality(R) |->
             LET x == original(Len(h) + k)
             IN Object([n \in DOMAIN h[x].props |->
                          IF h[x].props[n].isObject
                            THEN Ref(cloneOf(h, id, h[x].props[n].ref))
                            ELSE h[x].props[n]],
                       "plain")]

\* The object graphs a caller passes: a chain, a shared leaf, a cycle, a
\* self reference and a flat object, each object at any integrity level
\* (the caller may have frozen or sealed any of them on its own).
Levels == {"plain", "sealed", "frozen"}

Chain(l) ==
  << Object(("p" :> Ref(2)), l[1]),
     Object(("p" :> Ref(3)), l[2]),
     Object(("p" :> Number), l[3]) >>

Shared(l) ==
  << Object(("p" :> Ref(2)) @@ ("q" :> Ref(3)), l[1]),
     Object(("q" :> Ref(3)), l[2]),
     Object(NoProps, l[3]) >>

Cycle(l) ==
  << Object(("p" :> Ref(2)), l[1]),
     Object(("p" :> Ref(1)) @@ ("q" :> Ref(3)), l[2]),
     Object(("q" :> Number), l[3]) >>

SelfReference(l) == << Object(("p" :> Ref(1)) @@ ("q" :> Number), l[1]) >>

Flat(l) == << Object(("p" :> Number) @@ ("q" :> Number), l[1]) >>

Heaps ==
  {Chain(l) : l \in [1..3 -> Levels]} \cup
  {Shared(l) : l \in [1..3 -> Levels]} \cup
  {Cycle(l) : l \in [1..3 -> Levels]} \cup
  {SelfReference(l) : l \in [1..1 -> Levels]} \cup
  {Flat(l) : l \in [1..1 -> Levels]}

\* deepFreeze(obj, createCopy) or deepSeal(obj, createCopy) on the first
\* object of the graph or on a primitive.
Calls ==
  [fn : {"deepFreeze", "deepSeal"}, obj : {Ref(1), Number},
   createCopy : BOOLEAN]

Frame(fn, obj, createCopy) ==
  [pc |-> "entry", fn |-> fn, obj |-> obj, createCopy |-> createCopy,
   target |-> 0, prop |-> 1]

InitObject ==
  /\ heap \in Heaps
  /\ call \in Calls
  /\ stack = << Frame(call.fn, call.obj, call.createCopy) >>
  /\ returned = Number
  /\ text = EmptyString
  /\ strippedText = EmptyString
  /\ ansiPc = "none"
  /\ cmdArgs = <<>>
  /\ options = [hasAliases |-> FALSE, aliases |-> EmptyObject,
                hasBoolean |-> FALSE, boolean |-> <<>>]
  /\ pc = "none"
  /\ i = 0
  /\ parsedArgs = EmptyObject
  /\ looseArgs = <<>>
  /\ restCommand = EmptyString
  /\ collectingRest = FALSE
  /\ this = [aliases |-> EmptyObject, parsedArgs |-> EmptyObject,
             looseArgs |-> <<>>, restCommand |-> EmptyString]
  /\ calls = 1

\* The innermost call and the stack below it.
top == stack[Len(stack)]
below == SubSeq(stack, 1, Len(stack) - 1)

\* return of the innermost call; the result of a nested call is not used
\* (lines 38, 82), the result of the outermost call goes to the caller.
return(value) ==
  /\ stack' = below
  /\ returned' = IF below = <<>> THEN value ELSE returned

\* lines 25-27 and 69-71
ReturnPrimitive ==
  /\ stack # <<>> /\ top.pc = "entry"
  /\ ~top.obj.isObject
  /\ return(top.obj)
  /\ UNCHANGED <<heap, call>>
  /\ UNCHANGED <<argsVars, ansiVars>>

\* lines 29-30 and 73-74: target = createCopy ? structuredClone(obj) : obj,
\* then Object.freeze(target) or Object.seal(target).
Enter ==
  /\ stack # <<>> /\ top.pc = "entry"
  /\ top.obj.isObject
  /\ LET target == IF top.createCopy
                     THEN cloneOf(heap, top.obj.ref, top.obj.ref)
                     ELSE top.obj.ref
         h == IF top.createCopy THEN structuredClone(heap, top.obj.ref)
              ELSE heap
     IN /\ heap' = IF top.fn = "deepFreeze" THEN freeze(h, target)
                   ELSE seal(h, target)
        /\ stack' = [stack EXCEPT ![Len(stack)].pc = "loop",
                                  ![Len(stack)].target = target,
                                  ![Len(stack)].prop = 1]
  /\ UNCHANGED <<call, returned>>
  /\ UNCHANGED <<argsVars, ansiVars>>

\* lines 33-37 and 77-81: the property is an own property whose value is an
\* object that is not yet frozen (deepFreeze), not yet sealed (deepSeal).
mustDescend(f) ==
  /\ PropNames[f.prop] \in DOMAIN heap[f.target].props
  /\ LET value == heap[f.target].props[PropNames[f.prop]]
     IN /\ value.isObject
        /\ IF f.fn = "deepFreeze" THEN ~isFrozen(heap[value.ref])
           ELSE ~isSealed(heap[value.ref])

\* line 38: deepFreeze(value, createCopy); line 82: deepSeal(value, false)
Descend ==
  /\ stack # <<>> /\ top.pc = "loop"
  /\ top.prop <= Len(PropNames)
  /\ mustDescend(top)
  /\ Len(stack) < MaxDepth
  /\ stack' = Append([stack EXCEPT ![Len(stack)].prop = @ + 1],
                     Frame(top.fn,
                           heap[top.target].props[PropNames[top.prop]],
                           IF top.fn = "deepFreeze" THEN top.createCopy
                           ELSE FALSE))
  /\ UNCHANGED <<heap, call, returned>>
  /\ UNCHANGED <<argsVars, ansiVars>>

\* lines 32-41 and 76-85, condition false: the next property
Skip ==
  /\ stack # <<>> /\ top.pc = "loop"
  /\ top.prop <= Len(PropNames)
  /\ ~mustDescend(top)
  /\ stack' = [stack EXCEPT ![Len(stack)].prop = @ + 1]
  /\ UNCHANGED <<heap, call, returned>>
  /\ UNCHANGED <<argsVars, ansiVars>>

\* lines 43 and 87: return target
ReturnTarget ==
  /\ stack # <<>> /\ top.pc = "loop"
  /\ top.prop > Len(PropNames)
  /\ return(Ref(top.target))
  /\ UNCHANGED <<heap, call>>
  /\ UNCHANGED <<argsVars, ansiVars>>

\* lines 38 and 82 when the call stack is full: the nested call raises
\* RangeError, which no frame catches; the outermost call does not return.
RangeError ==
  /\ stack # <<>> /\ top.pc = "loop"
  /\ top.prop <= Len(PropNames)
  /\ mustDescend(top)
  /\ Len(stack) >= MaxDepth
  /\ stack' = << [top EXCEPT !.pc = "RangeError"] >>
  /\ UNCHANGED <<heap, call, returned>>
  /\ UNCHANGED <<argsVars, ansiVars>>

NextObject ==
  \/ ReturnPrimitive
  \/ Enter
  \/ Descend
  \/ Skip
  \/ ReturnTarget
  \/ RangeError


SpecObject == InitObject /\ [][NextObject]_vars

\* The engine keeps running the call: some step is taken whenever one is
\* possible.
SpecObjectFair == SpecObject /\ WF_vars(NextObject)

(***************************************************************************)
(* stripAnsi, src/unnamed/part_002 lines 625-633:                          *)
(*   text.replace(/\x1b\[[\d;]*[A-Za-z]/g, "")                             *)
(* "ESC" stands for the one character \x1b.                                *)
(***************************************************************************)
MaxText == 6

\* The characters of the input: the escape character, "[", a digit, ";",
\* an ASCII letter and a character of none of these classes.
Chars == {"ESC", "[", "1", ";", "m", " "}
Texts == UNION {[1..n -> Chars] : n \in 0..MaxText}

\* the classes [\d;] and [A-Za-z] on the characters of the input
isDigitOrSemicolon(c) == c \in {"1", ";"}
isLetter(c) == c = "m"

\* The end of [\d;]* matched greedily from position k on: the position of
\* the first character from k on that is outside the class.
RECURSIVE afterParameters(_, _)
afterParameters(s, k) ==
  IF k <= Len(s) /\ isDigitOrSemicolon(s[k])
    THEN afterParameters(s, k + 1) ELSE k

\* The position of the last character of a match of the pattern that
\* starts at position k, 0 if none starts there.  The two classes are
\* disjoint, so giving back a parameter character never yields a match.
matchEnd(s, k) ==
  IF k + 1 <= Len(s) /\ s[k] = "ESC" /\ s[k + 1] = "["
    THEN LET e == afterParameters(s, k + 2)
         IN IF e <= Len(s) /\ isLetter(s[e]) THEN e ELSE 0
    ELSE 0

\* String.prototype.replace with the g flag and "" as replacement, from
\* position k on: one left-to-right scan, each match is left out and the
\* scan goes on after it, any other character is kept.
RECURSIVE replaceFrom(_, _)
replaceFrom(s, k) ==
  IF k > Len(s) THEN <<>>
  ELSE IF matchEnd(s, k) # 0
    THEN replaceFrom(s, matchEnd(s, k) + 1)
    ELSE <<s[k]>> \o replaceFrom(s, k + 1)

\* lines 630-633
stripAnsi(s) == replaceFrom(s, 1)

InitAnsi ==
  /\ text \in Texts
  /\ strippedText = EmptyString
  /\ ansiPc = "call"
  /\ heap = <<>>
  /\ call = NoCall
  /\ stack = <<>>
  /\ returned = Number
  /\ cmdArgs = <<>>
  /\ options = [hasAliases |-> FALSE, aliases |-> EmptyObject,
                hasBoolean |-> FALSE, boolean |-> <<>>]
  /\ pc = "none"
  /\ i = 0
  /\ parsedArgs = EmptyObject
  /\ looseArgs = <<>>
  /\ restCommand = EmptyString
  /\ collectingRest = FALSE
  /\ this = [aliases |-> EmptyObject, parsedArgs |-> EmptyObject,
             looseArgs |-> <<>>, restCommand |-> EmptyString]
  /\ calls = 1

\* const strippedText = stripAnsi(text)
StripAnsi ==
  /\ ansiPc = "call"
  /\ strippedText' = stripAnsi(text)
  /\ ansiPc' = "returned"
  /\ UNCHANGED text
  /\ UNCHANGED <<argsVars, objVars>>

NextAnsi == StripAnsi

SpecAnsi == InitAnsi /\ [][NextAnsi]_vars

(***************************************************************************)
(* Vocabulary of the properties.                                           *)
(***************************************************************************)
Delim == <<"-", "-">>

\* The scan is at a flag token (a token starting with "-" that is not "--").
AtFlag ==
  /\ pc = "loop" /\ i < Len(cmdArgs) /\ ~collectingRest
  /\ cmdArgs[i + 1] # Delim
  /\ startsWith(cmdArgs[i + 1], <<"-">>)

\* Position of the first "=" of s, 0 if none.
firstEq(s) ==
  IF \E k \in 1..Len(s) : s[k] = "="
    THEN CHOOSE k \in 1..Len(s) : s[k] = "=" /\ \A j \in 1..(k - 1) : s[j] # "="
    ELSE 0

hasInline(tok) == firstEq(tok) # 0
afterFirstEq(tok) == SubSeq(tok, firstEq(tok) + 1, Len(tok))

\* The key of the flag token under the scan, after alias resolution.
curKey == resolveKey(options, parts(cmdArgs[i + 1])[1])

\* The key whose value sequence grew in this step, and the value appended.
RecordedKey ==
  CHOOSE k \in DOMAIN parsedArgs' :
    k \notin DOMAIN parsedArgs \/ Len(parsedArgs'[k]) > Len(parsedArgs[k])
RecordedValue == parsedArgs'[RecordedKey][Len(parsedArgs'[RecordedKey])]

RECURSIVE SumLen(_, _)
SumLen(f, ks) ==
  IF ks = {} THEN 0
  ELSE LET k == CHOOSE k \in ks : TRUE IN Len(f[k]) + SumLen(f, ks \ {k})
Occurrences(pa) == SumLen(pa, DOMAIN pa)

\* Tokens after the first "--", and their join with single spaces.
afterDelimiter(args) ==
  IF \E k \in 1..Len(args) : args[k] = Delim
    THEN LET k == CHOOSE k \in 1..Len(args) :
                    args[k] = Delim /\ \A j \in 1..(k - 1) : args[j] # Delim
         IN SubSeq(args, k + 1, Len(args))
    ELSE <<>>

RECURSIVE joinSpaces(_)
joinSpaces(ts) ==
  IF ts = <<>> THEN <<>>
  ELSE IF Len(ts) = 1 THEN ts[1]
  ELSE ts[1] \o <<" ">> \o joinSpaces(Tail(ts))

\* C1: the rest returned by the parse is the tokens after the first "--"
\* joined with single spaces, whatever the tokens are (empty ones included).
C1_RestIsJoinOfTail ==
  pc = "constructed" =>
    this.restCommand = joinSpaces(afterDelimiter(cmdArgs))

\* C2: a flag that is not boolean-only, has no inline value and is last or
\* followed by a token starting with "-" is recorded with the boolean true.
C2_BareFlagRecordsTrue ==
  [][(/\ AtFlag
      /\ ~isBoolean(options, curKey)
      /\ ~hasInline(cmdArgs[i + 1])
      /\ (i + 1 = Len(cmdArgs) \/ startsWith(cmdArgs[i + 2], <<"-">>)))
     => RecordedValue = BooleanTrue]_vars

\* C3: for a non-boolean flag with an inline value, the recorded value is
\* all the text after the first "=", later "=" characters included.
C3_InlineValueAfterFirstEq ==
  [][(/\ AtFlag
      /\ ~isBoolean(options, curKey)
      /\ hasInline(cmdArgs[i + 1]))
     => RecordedValue = StringValue(afterFirstEq(cmdArgs[i + 1]))]_vars

\* C4: a non-boolean flag without inline value consumes the next token if
\* and only if that token exists and does not start with "-"; the consumed
\* token is recorded verbatim, is not added to loose and yields no
\* occurrence of its own.
C4_ConsumesNextIffPlain ==
  [][(/\ AtFlag
      /\ ~isBoolean(options, curKey)
      /\ ~hasInline(cmdArgs[i + 1]))
     => IF i + 1 < Len(cmdArgs) /\ ~startsWith(cmdArgs[i + 2], <<"-">>)
          THEN /\ i' = i + 2
               /\ RecordedKey = curKey
               /\ RecordedValue = StringValue(cmdArgs[i + 2])
               /\ looseArgs' = looseArgs
               /\ Occurrences(parsedArgs') = Occurrences(parsedArgs) + 1
          ELSE i' = i + 1]_vars

\* C4 witness: an empty-string token after "-a" was consumed as its value.
C4_Witness ==
  /\ pc = "loop" /\ i = 2 /\ Len(cmdArgs) = 3
  /\ cmdArgs[1] = <<"-", "a">> /\ cmdArgs[2] = EmptyString
  /\ ~options.hasAliases /\ ~options.hasBoolean
  /\ parsedArgs = (<<"a">> :> <<StringValue(EmptyString)>>)
  /\ looseArgs = <<>>

\* An alias table resolves in one step: no target is empty and no target is
\* itself an alias name.
SingleLevelAliases(opts) ==
  \A n \in DOMAIN opts.aliases :
    opts.aliases[n] # EmptyString /\ opts.aliases[n] \notin DOMAIN opts.aliases

\* The canonical key the alias table declares for a written flag name.
declaredKey(opts, name) ==
  IF opts.hasAliases /\ name \in DOMAIN opts.aliases
    THEN opts.aliases[name] ELSE name

\* Each flag occurrence appends one value to its declared canonical key and
\* leaves every other key alone.
AccumulatesUnderDeclaredKey ==
  AtFlag =>
    LET k == declaredKey(options, parts(cmdArgs[i + 1])[1])
    IN /\ DOMAIN parsedArgs' = DOMAIN parsedArgs \cup {k}
       /\ \A o \in DOMAIN parsedArgs : o # k => parsedArgs'[o] = parsedArgs[o]
       /\ Len(parsedArgs'[k]) =
            (IF k \in DOMAIN parsedArgs THEN Len(parsedArgs[k]) ELSE 0) + 1
       /\ k \in DOMAIN parsedArgs =>
            SubSeq(parsedArgs'[k], 1, Len(parsedArgs[k])) = parsedArgs[k]

\* No alias name is a key of args alongside its canonical target.
NoAliasKeyBesideTarget ==
  \A n \in DOMAIN options.aliases :
    ~(/\ options.hasAliases
      /\ n # options.aliases[n]
      /\ n \in DOMAIN parsedArgs
      /\ options.aliases[n] \in DOMAIN parsedArgs)

QueriesAgree(n, m) ==
  /\ getArray(this, n) = getArray(this, m)
  /\ get(this, n) = get(this, m)
  /\ getBoolean(this, n) = getBoolean(this, m)
  /\ count(this, n) = count(this, m)

HasAliasRelation(opts, name) ==
  opts.hasAliases /\
    (name \in DOMAIN opts.aliases \/ name \in Range(opts.aliases))

\* The ways a flag can be written: its own name, its canonical name and
\* every alias of either.
Spellings(opts, name) ==
  {name, declaredKey(opts, name)} \cup
    {n \in DOMAIN opts.aliases :
       opts.aliases[n] = name \/ opts.aliases[n] = declaredKey(opts, name)}

\* After the normalisation step every spelling of every listed name that
\* has an alias relation is classified boolean-only by the scan.
ListedBooleanCoversSpellings ==
  (pc = "normalize" /\ options.hasBoolean) =>
    \A name \in Range(options.boolean) :
      HasAliasRelation(options, name) =>
        \A s \in Spellings(options, name) :
          isBoolean(options', resolveKey(options', s))

C9_NoSideEffects ==
  [][cmdArgs' = cmdArgs /\ options' = options]_vars

\* C10: get(name) is undefined exactly when the resolved key is absent, and
\* otherwise is the first recorded value as a string.
C10_GetUndefinedIffAbsent ==
  pc = "constructed" =>
    \A name \in Names :
      LET c == canonicalArgName(this, name)
      IN /\ (get(this, name) = Undefined) <=> (c \notin DOMAIN this.parsedArgs)
         /\ c \in DOMAIN this.parsedArgs =>
              get(this, name) = StringValue(toString(this.parsedArgs[c][1]))

\* The pairs (upper-case letter, lower-case letter) of the boolean words.
UpperLower ==
  { <<"N", "n">>, <<"O", "o">>, <<"F", "f">>, <<"A", "a">>, <<"L", "l">>,
    <<"S", "s">>, <<"E", "e">>, <<"Y", "y">> }

\* s is the word w up to the case of its letters.
SpellsIgnoringCase(s, w) ==
  /\ Len(s) = Len(w)
  /\ \A k \in 1..Len(s) : s[k] = w[k] \/ <<s[k], w[k]>> \in UpperLower

FalseWords == { <<"n", "o">>, <<"n">>, <<"f", "a", "l", "s", "e">>, <<"0">> }

beforeDelimiter(args) ==
  IF \E k \in 1..Len(args) : args[k] = Delim
    THEN LET k == CHOOSE k \in 1..Len(args) :
                    args[k] = Delim /\ \A j \in 1..(k - 1) : args[j] # Delim
         IN SubSeq(args, 1, k - 1)
    ELSE args

\* The key a flag token is written with: one leading "--", else one leading
\* "-", removed, and the text cut at the first "=".
writtenKey(tok) ==
  LET body == IF Len(tok) >= 2 /\ tok[1] = "-" /\ tok[2] = "-"
                THEN SubSeq(tok, 3, Len(tok)) ELSE SubSeq(tok, 2, Len(tok))
  IN IF firstEq(body) = 0 THEN body ELSE SubSeq(body, 1, firstEq(body) - 1)

\* A flag token resolving to the same key as name occurs before the first
\* "--".
FlagOccurs(name) ==
  \E k \in 1..Len(beforeDelimiter(cmdArgs)) :
    /\ startsWith(cmdArgs[k], <<"-">>)
    /\ resolveKey(options, writtenKey(cmdArgs[k])) = resolveKey(options, name)

WellFormedArgs(pa) ==
  \A k \in DOMAIN pa :
    /\ Len(pa[k]) >= 1
    /\ \A n \in 1..Len(pa[k]) : pa[k][n].kind \in {"string", "boolean"}
    /\ \E n \in 1..Len(beforeDelimiter(cmdArgs)) :
         /\ startsWith(cmdArgs[n], <<"-">>)
         /\ k = resolveKey(options, writtenKey(cmdArgs[n]))

C15_ArgsWellFormed ==
  WellFormedArgs(parsedArgs) /\ WellFormedArgs(this.parsedArgs)

(***************************************************************************)
(* C16: no query method raises, whatever the tokens, the aliases, the      *)
(* boolean list and the queried name; a name whose key was not recorded    *)
(* yields the empty array, undefined, false and 0.                         *)
(***************************************************************************)
QueriedNames == Names \cup Inherited

C16_QueriesNeverRaise ==
  pc = "constructed" =>
    \A name \in QueriedNames :
      /\ ~getArrayThrows(this, name)
      /\ canonicalArgName(this, name) \notin DOMAIN this.parsedArgs =>
           /\ getArray(this, name) = <<>>
           /\ get(this, name) = Undefined
           /\ ~getBoolean(this, name)
           /\ count(this, name) = 0

(***************************************************************************)
(* C17: round trip.                                                        *)
(***************************************************************************)

\* The function parseLoop and the step-by-step scan compute the same result.
ParseLoopAgrees ==
  pc = "constructed" =>
    LET st == parseLoop(options, cmdArgs, 0,
                [parsedArgs |-> EmptyObject, looseArgs |-> <<>>,
                 restCommand |-> EmptyString, collectingRest |-> FALSE])
    IN /\ st.parsedArgs = this.parsedArgs
       /\ st.looseArgs = this.looseArgs
       /\ st.restCommand = this.restCommand

\* The flag token written back for one recorded occurrence: --key=value for
\* a string value, --key for true.
flagToken(key, value) ==
  <<"-", "-">> \o key \o
    (IF value.kind = "string" THEN <<"=">> \o value.str ELSE <<>>)

\* One flag token per recorded occurrence, key by key, each key's
\* occurrences in their recorded order.
RECURSIVE reconstruct(_)
reconstruct(pa) ==
  IF DOMAIN pa = {} THEN <<>>
  ELSE LET k == CHOOSE k \in DOMAIN pa : TRUE
       IN [n \in 1..Len(pa[k]) |-> flagToken(k, pa[k][n])] \o
            reconstruct([j \in DOMAIN pa \ {k} |-> pa[j]])

\* C17: with no boolean set, parsing the loose tokens followed by the
\* reconstructed flag tokens of a result yields the same keys, the same
\* value sequence for each key and the same loose sequence.
C17_RoundTrip ==
  (pc = "constructed" /\ ~options.hasBoolean) =>
    LET again == parseArgs(this.looseArgs \o reconstruct(this.parsedArgs),
                           options)
    IN again.args = this.parsedArgs /\ again.loose = this.looseArgs

(***************************************************************************)
(* C18: for a token sequence in which no token starts with "-", parseArgs  *)
(* returns an empty args mapping, a loose sequence equal to the input in   *)
(* the same order, and an empty rest.                                      *)
(***************************************************************************)
NoDashTokens(args) == \A n \in 1..Len(args) : ~startsWith(args[n], <<"-">>)

C18_PlainTokensAreLoose ==
  (pc = "constructed" /\ NoDashTokens(cmdArgs)) =>
    /\ this.parsedArgs = EmptyObject
    /\ this.looseArgs = cmdArgs
    /\ this.restCommand = EmptyString

C18_Witness ==
  /\ pc = "constructed"
  /\ cmdArgs = << <<"x">>, <<>>, <<"x", "=", "y">> >>
  /\ options.hasAliases /\ options.hasBoolean
  /\ this.parsedArgs = EmptyObject
  /\ this.looseArgs = << <<"x">>, <<>>, <<"x", "=", "y">> >>
  /\ this.restCommand = EmptyString

(***************************************************************************)
(* deepFreeze: C19, C20.                                                   *)
(***************************************************************************)

\* The outermost call has returned.
Returned == stack = <<>>

\* Every object reachable from heap[id], heap[id] included, is frozen.
DeeplyFrozen(h, id) == \A x \in Reach(h, id) : isFrozen(h[x])

\* C19: after deepFreeze(obj) with createCopy false, obj and every object
\* reachable from obj through own enumerable properties is frozen,
\* whichever of the nested objects were frozen before the call.
C19_DeepFreezeFreezesReachable ==
  (Returned /\ call.fn = "deepFreeze" /\ ~call.createCopy /\ call.obj.isObject)
    => DeeplyFrozen(heap, call.obj.ref)

\* C20: deepFreeze(obj, true) returns a new object, and the returned object
\* and every object reachable from it are frozen.
C20_DeepFreezeCopyFrozen ==
  (Returned /\ call.fn = "deepFreeze" /\ call.createCopy /\ call.obj.isObject)
    => /\ returned.isObject
       /\ returned # call.obj
       /\ DeeplyFrozen(heap, returned.ref)

(***************************************************************************)
(* deepSeal: C21.                                                          *)
(***************************************************************************)

\* Every object reachable from heap[id], heap[id] included, is sealed.
DeeplySealed(h, id) == \A x \in Reach(h, id) : isSealed(h[x])

\* C21: after deepSeal(obj, createCopy), for either value of createCopy,
\* the returned object and every object reachable from it through own
\* enumerable properties is sealed; the objects of a copy are sealed and not
\* frozen, so their writable properties stay writable.
C21_DeepSealSealsReachable ==
  (Returned /\ call.fn = "deepSeal" /\ call.obj.isObject)
    => /\ returned.isObject
       /\ DeeplySealed(heap, returned.ref)
       /\ call.createCopy =>
            \A x \in Reach(heap, returned.ref) : heap[x].status = "sealed"

(***************************************************************************)
(* C22: when createCopy is true, deepFreeze and deepSeal leave the         *)
(* original object graph unchanged: no step changes the integrity level or *)
(* a property value of an object reachable from the original argument, and *)
(* the returned object shares no object with the original.                 *)
(***************************************************************************)
OriginalGraph == Reach(heap, call.obj.ref)

C22_CopyLeavesOriginalUnchanged ==
  /\ [][(call.createCopy /\ call.obj.isObject) =>
          \A x \in OriginalGraph : heap'[x] = heap[x]]_vars
  /\ []((Returned /\ call.createCopy /\ call.obj.isObject) =>
          /\ returned.isObject
          /\ Reach(heap, returned.ref) \cap OriginalGraph = {})

C22_Witness ==
  /\ Returned
  /\ call = [fn |-> "deepSeal", obj |-> Ref(1), createCopy |-> TRUE]
  /\ Len(heap) = 6
  /\ SubSeq(heap, 1, 3) = Shared([n \in 1..3 |-> "plain"])
  /\ returned = Ref(4)
  /\ Reach(heap, 4) = {4, 5, 6}
  /\ DeeplySealed(heap, 4)

(***************************************************************************)
(* stripAnsi: C23.                                                         *)
(***************************************************************************)

\* s contains an ANSI control code: ESC, "[", any number of digits or ";",
\* one ASCII letter.
ContainsAnsiCode(s) ==
  \E k \in 1..Len(s) : \E e \in (k + 2)..Len(s) :
    /\ s[k] = "ESC" /\ s[k + 1] = "["
    /\ \A j \in (k + 2)..(e - 1) : isDigitOrSemicolon(s[j])
    /\ isLetter(s[e])

\* C23: for every input string the result of stripAnsi contains no ANSI
\* control code, and stripAnsi applied to the result returns the result.
C23_StripAnsiLeavesNoCode ==
  ansiPc = "returned" =>
    /\ ~ContainsAnsiCode(strippedText)
    /\ stripAnsi(strippedText) = strippedText

(***************************************************************************)
(* C24: during a parse the collectingRest mode is entered by the first     *)
(* token exactly equal to "--" and never left: that token adds to none of  *)
(* args, loose and rest, and no later token changes args or loose.         *)
(***************************************************************************)
DelimiterProcessed == \E k \in 1..i : cmdArgs[k] = Delim

C24_RestModeNeverLeft ==
  /\ [](pc = "loop" => (collectingRest <=> DelimiterProcessed))
  /\ [][(pc = "loop" /\ collectingRest) =>
          /\ collectingRest'
          /\ parsedArgs' = parsedArgs
          /\ looseArgs' = looseArgs]_vars
  /\ [][(pc = "loop" /\ ~collectingRest /\ i < Len(cmdArgs)
           /\ cmdArgs[i + 1] = Delim) =>
          /\ collectingRest'
          /\ parsedArgs' = parsedArgs
          /\ looseArgs' = looseArgs
          /\ restCommand' = restCommand]_vars

C24_Witness ==
  /\ pc = "constructed"
  /\ cmdArgs = << <<"-", "-">>, <<"-", "a">>, <<"-", "-">> >>
  /\ this.parsedArgs = EmptyObject
  /\ this.looseArgs = <<>>
  /\ this.restCommand = <<"-", "a", " ", "-", "-">>

(***************************************************************************)
(* C25: loose.                                                             *)
(***************************************************************************)

\* Token k of the tokens before the first "--" is a flag that takes the
\* following token as its value when that token does not start with "-":
\* it has no "=" and its key is not declared boolean.
TakesValue(k) ==
  LET tok == cmdArgs[k]
  IN /\ startsWith(tok, <<"-">>)
     /\ \A n \in 1..Len(tok) : tok[n] # "="
     /\ ~isBoolean(options, resolveKey(options, writtenKey(tok)))

\* Token k does not start with "-" and is not the value of the flag token
\* right before it.
IsLoose(k) ==
  /\ ~startsWith(cmdArgs[k], <<"-">>)
  /\ ~(k > 1 /\ TakesValue(k - 1))

\* The loose tokens among the first n tokens, in their order.
RECURSIVE LooseAmong(_)
LooseAmong(n) ==
  IF n = 0 THEN <<>>
  ELSE LooseAmong(n - 1) \o (IF IsLoose(n) THEN <<cmdArgs[n]>> ELSE <<>>)

\* C25: loose is exactly the subsequence, in original order, of the tokens
\* that appear before the first "--", do not start with "-" and were not
\* consumed as the value of the flag token right before them.
C25_LooseIsUnconsumedPlainTokens ==
  pc = "constructed" =>
    this.looseArgs = LooseAmong(Len(beforeDelimiter(cmdArgs)))

C25_Witness ==
  /\ pc = "constructed"
  /\ cmdArgs = << <<"-", "-", "b">>, <<"x">>, <<"x", "=", "y">> >>
  /\ ~options.hasBoolean
  /\ count(this, <<"b">>) = 1
  /\ this.looseArgs = << <<"x", "=", "y">> >>

(***************************************************************************)
(* C26: the key of a flag token, before alias resolution, is the token     *)
(* with one leading "--" removed if it starts with "--", otherwise one     *)
(* leading "-" removed, cut at the first "=".  So "-x" and "--x" record    *)
(* under one key, "---x" records under "-x", and a lone "-" is recorded    *)
(* under the empty key and never placed in loose.                          *)
(***************************************************************************)
C26_KeyStripping ==
  [][AtFlag =>
       /\ Occurrences(parsedArgs') > Occurrences(parsedArgs)
       /\ RecordedKey = resolveKey(options, writtenKey(cmdArgs[i + 1]))
       /\ looseArgs' = looseArgs]_vars

C26_Witness ==
  /\ pc = "constructed"
  /\ ~options.hasAliases
  /\ cmdArgs = << <<"-">>, <<"-", "-", "-", "a">>, <<"-", "a", "=", "x", "=", "y">> >>
  /\ DOMAIN this.parsedArgs = { <<>>, <<"-", "a">>, <<"a">> }
  /\ this.looseArgs = <<>>

(***************************************************************************)
(* C27: determinism under reuse.  Whenever a parser has been constructed,  *)
(* a further parseArgs call with the same tokens and the same options      *)
(* object returns args, loose and rest equal to the ones just returned,    *)
(* for every alias table and every boolean list.                           *)
(***************************************************************************)
C27_DeterministicUnderReuse ==
  pc = "constructed" =>
    parseArgs(cmdArgs, options) =
      [args |-> this.parsedArgs, loose |-> this.looseArgs,
       rest |-> this.restCommand]

NoChainedAliases(opts) ==
  \A n \in DOMAIN opts.aliases : opts.aliases[n] \notin DOMAIN opts.aliases

PrefixLen == Len(beforeDelimiter(cmdArgs))
FlagTokens == {k \in 1..PrefixLen : startsWith(cmdArgs[k], <<"-">>)}
ConsumedTokens ==
  {k \in 2..PrefixLen :
     ~startsWith(cmdArgs[k], <<"-">>) /\ TakesValue(k - 1)}

C30_Terminates == <>Returned

====
